---- MODULE Spec2Model ----
(***************************************************************************)
(* Model of the document-processing functions of utils/chunking.py:        *)
(* extract_frontmatter, strip_mdx_components,                              *)
(* convert_relative_links_to_absolute and chunk_by_headers; of the         *)
(* ingestion path of ingest_docs.py (scan_docs_directory,                  *)
(* ingest_to_chroma); and of the answering agent (query expansion,         *)
(* construction, streaming answer and its metadata).                       *)
(*                                                                         *)
(* A text is a sequence of one-character strings.  Positions are 1-based   *)
(* here and 0-based in the source; a source offset p is position p + 1.    *)
(***************************************************************************)
EXTENDS Integers, Sequences, FiniteSets, TLC

VARIABLES pc, content, metadata, max_chunk_size, result,
          scan, ingest, agent, request

vars == <<pc, content, metadata, max_chunk_size, result,
          scan, ingest, agent, request>>

-----------------------------------------------------------------------------
(* Bounds of the model.                                                    *)

\* number of pieces a markdown document is assembled from
MaxPieces == 4

\* largest token budget passed to chunk_by_headers
MaxBudget == 4

\* number of pieces an MDX text is assembled from
MaxMdxPieces == 5

\* number of pieces a link URL is assembled from
MaxUrlPieces == 3

\* number of pieces a text with frontmatter is assembled from
MaxHeaderPieces == 5

-----------------------------------------------------------------------------
(* Python string primitives.                                               *)

Min(S) == CHOOSE x \in S : \A y \in S : x <= y

Max(S) == CHOOSE x \in S : \A y \in S : x >= y

\* str.isspace for one character
IsSpace(c) == c \in {" ", "\n", "\t"}

\* s[i:] with a 1-based first position
Tail_(s, i) == SubSeq(s, i, Len(s))

\* str.strip()
Strip(s) ==
  LET I == {i \in 1..Len(s) : ~IsSpace(s[i])}
  IN  IF I = {} THEN <<>> ELSE SubSeq(s, Min(I), Max(I))

\* s.startswith(p, i - 1)
StartsWithAt(s, p, i) ==
  /\ i >= 1
  /\ i + Len(p) - 1 <= Len(s)
  /\ \A k \in 1..Len(p) : s[i + k - 1] = p[k]

\* s.startswith(p)
StartsWith(s, p) == StartsWithAt(s, p, 1)

\* s.endswith(p)
EndsWith(s, p) == StartsWithAt(s, p, Len(s) - Len(p) + 1)

\* s.find(p, i - 1) + 1: the first position >= i where p occurs, 0 when none
Find(s, p, i) ==
  LET J == {j \in i..(Len(s) - Len(p) + 1) : StartsWithAt(s, p, j)}
  IN  IF J = {} THEN 0 ELSE Min(J)

\* p in s
Contains(s, p) == Find(s, p, 1) # 0

RECURSIVE Replace(_, _, _)
\* s.replace(old, new), old non-empty: non-overlapping, left to right
Replace(s, old, new) ==
  LET j == Find(s, old, 1)
  IN  IF j = 0 THEN s
      ELSE SubSeq(s, 1, j - 1) \o new \o Replace(Tail_(s, j + Len(old)), old, new)

RECURSIVE Split(_, _)
\* s.split(sep), sep non-empty
Split(s, sep) ==
  LET j == Find(s, sep, 1)
  IN  IF j = 0 THEN <<s>>
      ELSE <<SubSeq(s, 1, j - 1)>> \o Split(Tail_(s, j + Len(sep)), sep)

\* the position of the last character of the line that holds position i
\* (the character before the next newline, or the end of the text)
LineEnd(s, i) ==
  LET j == Find(s, <<"\n">>, i)
  IN  IF j = 0 THEN Len(s) ELSE j - 1

\* the pattern without its ^ anchor: a match may start anywhere
AtAnyPosition(s, i) == TRUE

\* re's ^ under MULTILINE
AtLineStart(s, i) == i = 1 \/ (i - 1 <= Len(s) /\ s[i - 1] = "\n")

RECURSIVE Concat(_)
\* "".join(parts)
Concat(parts) ==
  IF parts = <<>> THEN <<>> ELSE Head(parts) \o Concat(Tail(parts))

-----------------------------------------------------------------------------
(* extract_frontmatter (chunking.py 9-32).                                 *)

\* a split that ignores maxsplit and cuts at every separator
SplitAll(s, sep, maxsplit) == Split(s, sep)

RECURSIVE SplitMax(_, _, _)
\* s.split(sep, maxsplit)
SplitMax(s, sep, maxsplit) ==
  LET j == Find(s, sep, 1)
  IN  IF maxsplit = 0 \/ j = 0 THEN <<s>>
      ELSE <<SubSeq(s, 1, j - 1)>> \o SplitMax(Tail_(s, j + Len(sep)), sep, maxsplit - 1)

\* the delimiter of lines 23-24
Delimiter == <<"-", "-", "-">>

\* Python values: a dict (a function from keys to values), a str, a list,
\* an int, None
PyDict(f) == [type |-> "dict", value |-> f]

PyStr(s) == [type |-> "str", value |-> s]

PyList(l) == [type |-> "list", value |-> l]

PyInt(n) == [type |-> "int", value |-> n]

PyNone == [type |-> "None"]

\* the empty mapping {}
EmptyDict == PyDict(<<>>)

\* bool(v)
Truthy(v) ==
  CASE v.type = "None" -> FALSE
    [] v.type = "int" -> v.value # 0
    [] OTHER -> v.value # <<>>

\* the lines of a YAML text that are not blank
YamlLines(text) ==
  SelectSeq(Split(text, <<"\n">>), LAMBDA l : Strip(l) # <<>>)

\* key: value, with a plain key and a plain value
IsYamlEntry(l) ==
  LET j == Find(l, <<":", " ">>, 1)
  IN  /\ j > 1
      /\ \A k \in 1..Len(l) : l[k] \notin {"[", "]", "{", "}", "-"}
      /\ Find(l, <<":", " ">>, j + 2) = 0
      /\ \A k \in 1..(j - 1) : ~IsSpace(l[k])
      /\ Strip(Tail_(l, j + 2)) # <<>>

\* - item
IsYamlItem(l) ==
  /\ StartsWith(l, <<"-", " ">>)
  /\ \A k \in 3..Len(l) : l[k] \notin {"[", "]", "{", "}", ":", "-"}
  /\ Strip(Tail_(l, 3)) # <<>>

\* a plain scalar line
IsYamlPlain(l) ==
  /\ \A k \in 1..Len(l) : l[k] \notin {"[", "]", "{", "}", ":", "-"}
  /\ ~IsSpace(l[1])

\* the dict of a sequence of key: value lines, a later line overriding
YamlDict(ls) ==
  LET key(l) == SubSeq(l, 1, Find(l, <<":", " ">>, 1) - 1)
      val(l) == Strip(Tail_(l, Find(l, <<":", " ">>, 1) + 2))
      last(k) == Max({n \in 1..Len(ls) : key(ls[n]) = k})
  IN  [k \in {key(ls[n]) : n \in 1..Len(ls)} |-> val(ls[last(k)])]

\* yaml.safe_load of line 27, on the YAML this model covers: unindented
\* lines that are all "key: value" (a dict), all "- item" (a list) or plain
\* text (a str, or the int 0 for "0"); a text without such lines loads as
\* None; any other text is a yaml.YAMLError.
YamlLoad(text) ==
  LET ls == YamlLines(text)
  IN  IF ls = <<>> THEN PyNone
      ELSE IF \A n \in 1..Len(ls) : IsYamlEntry(ls[n]) THEN PyDict(YamlDict(ls))
      ELSE IF \A n \in 1..Len(ls) : IsYamlItem(ls[n])
           THEN PyList([n \in 1..Len(ls) |-> Strip(Tail_(ls[n], 3))])
      ELSE IF ls = <<<<"0">>>> THEN PyInt(0)
      ELSE IF \A n \in 1..Len(ls) : IsYamlPlain(ls[n])
           THEN PyStr(Strip(text))
      ELSE [type |-> "YAMLError"]

\* lines 22-32
extract_frontmatter(s) ==
  LET parts == SplitMax(s, Delimiter, 2)
      loaded == YamlLoad(parts[2])
  IN  IF StartsWith(s, Delimiter) /\ Len(parts) >= 3 /\ loaded.type # "YAMLError"
      THEN [frontmatter |-> IF Truthy(loaded) THEN loaded ELSE EmptyDict,
            content |-> Strip(parts[3])]
      ELSE [frontmatter |-> EmptyDict, content |-> s]

-----------------------------------------------------------------------------
(* convert_relative_links_to_absolute (chunking.py 35-93).                 *)

HttpScheme == <<"h", "t", "t", "p", ":", "/", "/">>

HttpsScheme == <<"h", "t", "t", "p", "s", ":", "/", "/">>

\* the media base of line 80
MediaBase == <<"h", "t", "t", "p", "s", ":", "/", "/", "n", "e", "b", "a", "r", "i", ".", "d", "e", "v", "/">>

\* the docs base of line 86
DocsBase == <<"h", "t", "t", "p", "s", ":", "/", "/", "n", "e", "b", "a", "r", "i", ".", "d", "e", "v", "/", "d", "o", "c", "s", "/">>

\* image_extensions of line 71
image_extensions == {<<".", "p", "n", "g">>, <<".", "j", "p", "g">>, <<".", "j", "p", "e", "g">>, <<".", "g", "i", "f">>, <<".", "s", "v", "g">>}

\* The pattern of line 92, !?\[([^\]]+)\]\(([^\)]+)\), tried at position p.
\* The label runs to the first "]" and the URL to the first ")"; both are
\* non-empty; backing off inside either class cannot reach the literal that
\* follows, so the match at p is unique.  last is the position of the ")".
LinkMatchAt(s, p) ==
  LET bang == p <= Len(s) /\ s[p] = "!"
      a == IF bang THEN p + 1 ELSE p
      j == IF a <= Len(s) /\ s[a] = "[" THEN Find(s, <<"]">>, a + 1) ELSE 0
      k == IF j > a + 1 /\ j + 1 <= Len(s) /\ s[j + 1] = "("
           THEN Find(s, <<")">>, j + 2) ELSE 0
  IN  IF k > j + 2
      THEN [ok |-> TRUE, bang |-> bang, link_text |-> SubSeq(s, a + 1, j - 1),
            link_url |-> SubSeq(s, j + 2, k - 1), first |-> p, last |-> k]
      ELSE [ok |-> FALSE]

\* lines 72: the reference is treated as an image
IsImageRef(is_image, link_url) ==
  \/ is_image
  \/ Contains(link_url, <<"/", "i", "m", "g", "/">>)
  \/ \E e \in image_extensions : EndsWith(link_url, e)

\* a leading "/" removed (lines 75-76 and 84-85)
DropLeadingSlash(u) == IF StartsWith(u, <<"/">>) THEN Tail(u) ELSE u

\* lines 74-80: the absolute URL of an image reference
ImageUrl(link_url) ==
  LET c1 == DropLeadingSlash(
              Replace(Replace(link_url, <<".", ".", "/">>, <<>>), <<".", "/">>, <<>>))
      c2 == IF ~StartsWith(c1, <<"i", "m", "g", "/">>)
            THEN Replace(c1, <<"s", "t", "a", "t", "i", "c", "/", "i", "m", "g", "/">>, <<"i", "m", "g", "/">>)
            ELSE c1
  IN  MediaBase \o c2

\* lines 83-86: the absolute URL of a documentation link
DocUrl(link_url) ==
  LET c1 == Replace(Replace(Replace(link_url, <<".", ".", "/">>, <<>>),
                            <<".", "/">>, <<>>),
                    <<"/", "d", "o", "c", "s", "/">>, <<>>)
  IN  DocsBase \o DropLeadingSlash(c1)

\* lines 63 and 67: an absolute URL or an anchor, passed through
IsSkippedUrl(link_url) ==
  \/ StartsWith(link_url, HttpScheme)
  \/ StartsWith(link_url, HttpsScheme)
  \/ StartsWith(link_url, <<"#">>)

\* lines 70-86: the absolute URL of a relative reference
AbsoluteUrl(is_image, link_url) ==
  IF IsImageRef(is_image, link_url) THEN ImageUrl(link_url) ELSE DocUrl(link_url)

\* the marker dropped from the rewritten reference
NoLinkPrefix(is_image) == <<>>

\* line 88: the marker written back
LinkPrefix(is_image) == IF is_image THEN <<"!">> ELSE <<>>

\* lines 56-89: the replacement of one match m of text s
replace_link(s, m) ==
  IF IsSkippedUrl(m.link_url)
  THEN SubSeq(s, m.first, m.last)
  ELSE LinkPrefix(m.bang) \o <<"[">> \o m.link_text
       \o <<"]", "(">> \o AbsoluteUrl(m.bang, m.link_url) \o <<")">>

RECURSIVE SubLinks(_, _)
\* re.sub(pattern, replace_link, content) from position p on: the leftmost
\* match is replaced and the scan resumes after it
SubLinks(s, p) ==
  LET Q == {q \in p..Len(s) : LinkMatchAt(s, q).ok}
      m == LinkMatchAt(s, Min(Q))
  IN  IF Q = {} THEN Tail_(s, p)
      ELSE SubSeq(s, p, m.first - 1) \o replace_link(s, m) \o SubLinks(s, m.last + 1)

convert_relative_links_to_absolute(s) == SubLinks(s, 1)

-----------------------------------------------------------------------------
(* chunk_by_headers (chunking.py 96-198).                                  *)

\* the default of metadata.get("title", "Document")
DefaultTitle == <<"D", "o", "c", "u", "m", "e", "n", "t">>

\* metadata.get("title", "Document")
TitleOf(md) == IF "title" \in DOMAIN md THEN md.title ELSE DefaultTitle

\* f"**{title}**\n\n"
TitlePrefix(md) == <<"*", "*">> \o TitleOf(md) \o <<"*", "*", "\n", "\n">>

\* line 174: the token estimate
EstimatedTokens(text) == Len(text) \div 4

\* the number of "#" from position p on, counted up to 4
HashRun(s, p) ==
  IF \E n \in 0..3 : p + n > Len(s) \/ s[p + n] # "#"
  THEN Min({n \in 0..3 : p + n > Len(s) \/ s[p + n] # "#"})
  ELSE 4

\* the length of the whitespace run that starts at position a
SpaceRun(s, a) ==
  LET E == {i \in a..Len(s) : ~IsSpace(s[i])}
  IN  IF E = {} THEN Len(s) - a + 1 ELSE Min(E) - a

\* The tail \s+(.+)$ of a MULTILINE pattern, tried at position a: the
\* position where .+ starts, 0 when the tail does not match.  \s+ takes the
\* whole whitespace run (newlines included) and .+ the rest of that line;
\* when the run reaches the end of the text, \s+ gives characters back until
\* .+ can start on one that is not a newline.
SpaceThenRest(s, a) ==
  LET w == SpaceRun(s, a)
      q == a + w
      K == {k \in 1..(w - 1) : s[a + k] # "\n"}
  IN  IF w < 1 THEN 0
      ELSE IF q <= Len(s) THEN q
      ELSE IF K # {} THEN a + Max(K) ELSE 0

\* header_pattern of line 133, ^(#{2,3})\s+(.+)$ under MULTILINE, tried at
\* position p
HeaderMatchAt(s, p) ==
  LET h == HashRun(s, p)
      t == SpaceThenRest(s, p + h)
  IN  IF AtLineStart(s, p) /\ h \in {2, 3} /\ t # 0
      THEN [ok |-> TRUE, level |-> h, start |-> p,
            title |-> Strip(SubSeq(s, t, LineEnd(s, t))), last |-> LineEnd(s, t)]
      ELSE [ok |-> FALSE]

RECURSIVE FindHeaders(_, _)
\* lines 136-141: header_pattern.finditer from position p on
FindHeaders(s, p) ==
  LET Q == {q \in p..Len(s) : HeaderMatchAt(s, q).ok}
      m == HeaderMatchAt(s, Min(Q))
  IN  IF Q = {} THEN <<>>
      ELSE <<[level |-> m.level, title |-> m.title, start |-> m.start]>>
           \o FindHeaders(s, m.last + 1)

\* lines 145-151: the single chunk of a text without headers
WholeChunk(s, md) ==
  [text |-> TitlePrefix(md) \o s,
   metadata |-> [heading |-> TitleOf(md), chunk_index |-> 0] @@ md]

\* lines 157-160: the text of section i (0-based, as in the source)
SectionContent(s, headers, i) ==
  LET start == headers[i + 1].start
      end == IF i + 1 < Len(headers) THEN headers[i + 2].start - 1 ELSE Len(s)
  IN  Strip(SubSeq(s, start, end))

\* lines 166-171
SectionMetadata(md, header, i) ==
  [heading |-> header.title, chunk_index |-> i, heading_level |-> header.level] @@ md

\* a buffer seeded with the heading alone
SeedWithoutTitle(md, header) == header.title \o <<"\n", "\n">>

\* lines 179 and 188: the title and heading a buffer is seeded with
SeedText(md, header) == TitlePrefix(md) \o header.title \o <<"\n", "\n">>

\* line 182: the next paragraph does not fit the buffer
Overflows(current_chunk, para, budget) ==
  Len(current_chunk) \div 4 + Len(para) \div 4 > budget

RECURSIVE SplitParagraphs(_, _, _, _, _)
\* lines 181-194: the loop over paragraphs[k..], with the buffer current_chunk
SplitParagraphs(paragraphs, k, current_chunk, seed, budget) ==
  IF k > Len(paragraphs)
  THEN IF Strip(current_chunk) # <<>> THEN <<Strip(current_chunk)>> ELSE <<>>
  ELSE IF Overflows(current_chunk, paragraphs[k], budget)
       THEN <<Strip(current_chunk)>>
            \o SplitParagraphs(paragraphs, k + 1,
                               seed \o paragraphs[k] \o <<"\n", "\n">>, seed, budget)
       ELSE SplitParagraphs(paragraphs, k + 1,
                            current_chunk \o paragraphs[k] \o <<"\n", "\n">>, seed, budget)

\* lines 156-196: the chunks of section i
SectionChunks(s, md, headers, i, budget) ==
  LET section_content == SectionContent(s, headers, i)
      chunk_text == TitlePrefix(md) \o section_content
      chunk_metadata == SectionMetadata(md, headers[i + 1], i)
      seed == SeedText(md, headers[i + 1])
      texts == IF EstimatedTokens(chunk_text) > budget
               THEN SplitParagraphs(Split(section_content, <<"\n", "\n">>), 1,
                                    seed, seed, budget)
               ELSE <<chunk_text>>
  IN  [j \in 1..Len(texts) |-> [text |-> texts[j], metadata |-> chunk_metadata]]

RECURSIVE AllSectionChunks(_, _, _, _, _)
\* lines 155-196: the sections i, i + 1, ... in order
AllSectionChunks(s, md, headers, i, budget) ==
  IF i >= Len(headers) THEN <<>>
  ELSE SectionChunks(s, md, headers, i, budget)
       \o AllSectionChunks(s, md, headers, i + 1, budget)

\* lines 126-198
chunk_by_headers(markdown_content, md, budget) ==
  LET s == convert_relative_links_to_absolute(markdown_content)
      headers == FindHeaders(s, 1)
  IN  IF headers = <<>> THEN <<WholeChunk(s, md)>>
      ELSE AllSectionChunks(s, md, headers, 0, budget)

-----------------------------------------------------------------------------
(* strip_mdx_components (chunking.py 201-234).                             *)

\* the iteration cap of line 220
max_iterations == 10

\* the characters \w matches
WordChars ==
  {"a", "b", "c", "d", "e", "f", "g", "h", "i", "j", "k", "l", "m",
   "n", "o", "p", "q", "r", "s", "t", "u", "v", "w", "x", "y", "z",
   "A", "B", "C", "D", "E", "F", "G", "H", "I", "J", "K", "L", "M",
   "N", "O", "P", "Q", "R", "S", "T", "U", "V", "W", "X", "Y", "Z",
   "0", "1", "2", "3", "4", "5", "6", "7", "8", "9", "_"}

IsWord(c) == c \in WordChars

\* the length of the run of word characters that starts at position a
WordRun(s, a) ==
  LET E == {i \in a..Len(s) : ~IsWord(s[i])}
  IN  IF E = {} THEN Len(s) - a + 1 ELSE Min(E) - a

\* line 215: ^import\s+.+$ under MULTILINE, tried at position p
ImportMatchAt(s, p) ==
  LET t == SpaceThenRest(s, p + 6)
  IN  IF AtLineStart(s, p) /\ StartsWithAt(s, <<"i", "m", "p", "o", "r", "t">>, p) /\ t # 0
      THEN [ok |-> TRUE, last |-> LineEnd(s, t), repl |-> <<>>]
      ELSE [ok |-> FALSE]

\* the closing tag </name>
ClosingTag(name) == <<"<", "/">> \o name \o <<">">>

\* line 223: <(\w+)[^>]*>(.*?)</\1> under DOTALL, tried at position p.  The
\* opening tag ends at the first ">"; the name is the longest prefix of the
\* word run whose closing tag occurs after it, and .*? stops at the first
\* such closing tag.  The replacement is the inner text.
PairedMatchAt(s, p) ==
  LET n == WordRun(s, p + 1)
      g == Find(s, <<">">>, p + 1)
      L == {l \in 1..n : Find(s, ClosingTag(SubSeq(s, p + 1, p + l)), g + 1) # 0}
      c == Find(s, ClosingTag(SubSeq(s, p + 1, p + Max(L))), g + 1)
  IN  IF s[p] = "<" /\ n >= 1 /\ g # 0 /\ L # {}
      THEN [ok |-> TRUE, last |-> c + Max(L) + 2, repl |-> SubSeq(s, g + 1, c - 1)]
      ELSE [ok |-> FALSE]

\* line 229: <\w+[^>]*/>, tried at position p: the first ">" after the
\* name must be preceded by "/"
SelfClosingMatchAt(s, p) ==
  LET g == Find(s, <<">">>, p + 1)
  IN  IF /\ s[p] = "<"
         /\ WordRun(s, p + 1) >= 1
         /\ g > p + 2
         /\ s[g - 1] = "/"
      THEN [ok |-> TRUE, last |-> g, repl |-> <<>>]
      ELSE [ok |-> FALSE]

\* line 232: \{[^}]+\}, tried at position p
BraceMatchAt(s, p) ==
  LET e == Find(s, <<"}">>, p + 1)
  IN  IF s[p] = "{" /\ e > p + 1
      THEN [ok |-> TRUE, last |-> e, repl |-> <<>>]
      ELSE [ok |-> FALSE]

MatchAt(kind, s, p) ==
  CASE kind = "import" -> ImportMatchAt(s, p)
    [] kind = "paired" -> PairedMatchAt(s, p)
    [] kind = "selfclosing" -> SelfClosingMatchAt(s, p)
    [] kind = "brace" -> BraceMatchAt(s, p)

RECURSIVE ReSub(_, _, _)
\* re.sub of one pattern from position p on: the leftmost match is replaced
\* and the scan resumes after it
ReSub(kind, s, p) ==
  LET Q == {q \in p..Len(s) : MatchAt(kind, s, q).ok}
      q == Min(Q)
      m == MatchAt(kind, s, q)
  IN  IF Q = {} THEN Tail_(s, p)
      ELSE SubSeq(s, p, q - 1) \o m.repl \o ReSub(kind, s, m.last + 1)

RECURSIVE StripPaired(_, _)
\* lines 221-226: at most n more passes, stopping when a pass changes nothing
StripPaired(s, n) ==
  IF n = 0 THEN s
  ELSE LET next == ReSub("paired", s, 1)
       IN  IF next = s THEN s ELSE StripPaired(next, n - 1)

\* lines 214-234
strip_mdx_components(s) ==
  Strip(ReSub("brace",
              ReSub("selfclosing",
                    StripPaired(ReSub("import", s, 1), max_iterations), 1), 1))

-----------------------------------------------------------------------------
(* Input texts: every concatenation of at most `most' pieces.              *)

Texts(pieces, most) ==
  {Concat(ps) : ps \in UNION {[1..n -> pieces] : n \in 0..most}}

\* the value of a variable an operation does not use
Unused == <<>>

-----------------------------------------------------------------------------
(* chunk_by_headers applied to a document.                                 *)

ChunkPieces ==
  {<<"#", "#", " ", "a", "\n">>,
   <<"#", "#", "#", " ", "b", "\n", "\n">>,
   <<"\n", "\n", "a", "a", "a", "a">>,
   <<"#", "#", "#">>,
   <<" ">>,
   <<"#">>,
   <<"[", "a", "]", "(", "b", ")">>}

\* metadata mappings with a title (of two lengths), and one without
Metadatas ==
  {[title |-> <<"T">>, category |-> "root"],
   [title |-> <<"D", "o", "c">>, category |-> "root"],
   [category |-> "root"]}

InitChunk ==
  /\ pc = "chunk_call"
  /\ content \in Texts(ChunkPieces, MaxPieces)
  /\ metadata \in Metadatas
  /\ max_chunk_size \in 1..MaxBudget
  /\ result = Unused
  /\ scan = Unused /\ ingest = Unused /\ agent = Unused /\ request = Unused

CallChunk ==
  /\ pc = "chunk_call"
  /\ result' = chunk_by_headers(content, metadata, max_chunk_size)
  /\ pc' = "chunk_done"
  /\ UNCHANGED <<content, metadata, max_chunk_size, scan, ingest, agent, request>>

NextChunk == CallChunk

SpecChunk == InitChunk /\ [][NextChunk]_vars

-----------------------------------------------------------------------------
(* Properties of chunk_by_headers.                                         *)

ChunkDone == pc = "chunk_done"

\* the text the headers are searched in (line 127)
Absolutized == convert_relative_links_to_absolute(content)

\* the chunk_index values of the returned chunks, in order
ChunkIndexes == [k \in DOMAIN result |-> result[k].metadata.chunk_index]

\* the positions of the chunks returned for section i
ChunksOfSection(i) == {k \in DOMAIN result : result[k].metadata.chunk_index = i}

\* a line that begins with two or three "#" and a whitespace character
HasHeadingLine(s) ==
  \E p \in 1..Len(s) :
    /\ (p = 1 \/ s[p - 1] = "\n")
    /\ \E h \in {<<"#", "#">>, <<"#", "#", "#">>} :
         \E c \in {" ", "\n", "\t"} : StartsWithAt(s, h \o <<c>>, p)

\* C1: the chunk_index values of the returned chunks start at 0, follow
\* document order and are unique within the document.
C1_ChunkIndexUnique ==
  ChunkDone =>
    /\ ChunkIndexes[1] = 0
    /\ \A j, k \in DOMAIN result : j < k => ChunkIndexes[j] < ChunkIndexes[k]

\* C2: every returned chunk is within the token budget: len(text) // 4 is at
\* most max_chunk_size.
C2_WithinBudget ==
  ChunkDone =>
    \A k \in DOMAIN result : EstimatedTokens(result[k].text) <= max_chunk_size

\* the title-prefixed text of section i is over the budget
Oversize(i) ==
  EstimatedTokens(TitlePrefix(metadata)
                  \o SectionContent(Absolutized, FindHeaders(Absolutized, 1), i))
    > max_chunk_size

\* C3: a heading section whose title-prefixed text is over the budget gets at
\* least two chunks, and all chunks of the section carry identical metadata.
C3_OversizeSplit ==
  ChunkDone /\ FindHeaders(Absolutized, 1) # <<>> =>
    \A i \in 0..(Len(FindHeaders(Absolutized, 1)) - 1) :
      Oversize(i) =>
        /\ Cardinality(ChunksOfSection(i)) >= 2
        /\ \A j, k \in ChunksOfSection(i) : result[j].metadata = result[k].metadata

\* C4: every returned chunk text begins with the bold document title, the
\* title being "Document" when the metadata has none.
C4_TitlePrefixed ==
  ChunkDone =>
    \A k \in DOMAIN result :
      StartsWith(result[k].text,
                 <<"*", "*">>
                 \o (IF "title" \in DOMAIN metadata THEN metadata.title
                     ELSE <<"D", "o", "c", "u", "m", "e", "n", "t">>)
                 \o <<"*", "*">>)

\* a document without title whose first section is emitted whole and whose
\* second section is re-split by paragraphs
C4_Witness ==
  /\ ChunkDone
  /\ "title" \notin DOMAIN metadata
  /\ Cardinality(ChunksOfSection(0)) = 1
  /\ Cardinality(ChunksOfSection(1)) >= 2

\* C5: without a level-2 or level-3 heading line the result is exactly one
\* chunk, whatever the size: the title prefix followed by the whole
\* absolutized content, with the document metadata plus heading = title and
\* chunk_index = 0, and no heading_level.
C5_NoHeadingsOneChunk ==
  ChunkDone /\ ~HasHeadingLine(Absolutized) =>
    /\ Len(result) = 1
    /\ result[1].text = TitlePrefix(metadata) \o Absolutized
    /\ DOMAIN result[1].metadata = DOMAIN metadata \cup {"heading", "chunk_index"}
    /\ \A f \in DOMAIN metadata : result[1].metadata[f] = metadata[f]
    /\ result[1].metadata.heading = TitleOf(metadata)
    /\ result[1].metadata.chunk_index = 0
    /\ (content = <<>> => result[1].text = TitlePrefix(metadata))

\* a non-empty text over the budget, with a link that was rewritten and
\* without heading line, has been chunked
C5_Witness ==
  /\ ChunkDone
  /\ ~HasHeadingLine(Absolutized)
  /\ Absolutized # content
  /\ EstimatedTokens(TitlePrefix(metadata) \o Absolutized) > max_chunk_size
  /\ Len(result) = 1

-----------------------------------------------------------------------------
(* strip_mdx_components applied to an MDX text.                            *)

MdxPieces ==
  {<<"<", "a", ">">>,
   <<"<", "/", "a", ">">>,
   <<"<", "b", " ", "y", ">">>,
   <<"<", "/", "b", ">">>,
   <<"<", "a", "/", ">">>,
   <<"{", "x", "}">>,
   <<"!", "[", "i">>,
   <<"]", "(", "u", ")">>,
   <<"i", "m", "p", "o", "r", "t", " ", "z", "\n">>}

InitMdx ==
  /\ pc = "mdx_call"
  /\ content \in Texts(MdxPieces, MaxMdxPieces)
  /\ metadata = Unused
  /\ max_chunk_size = 0
  /\ result = Unused
  /\ scan = Unused /\ ingest = Unused /\ agent = Unused /\ request = Unused

CallStrip ==
  /\ pc = "mdx_call"
  /\ result' = strip_mdx_components(content)
  /\ pc' = "mdx_done"
  /\ UNCHANGED <<content, metadata, max_chunk_size, scan, ingest, agent, request>>

NextMdx == CallStrip

SpecMdx == InitMdx /\ [][NextMdx]_vars

-----------------------------------------------------------------------------
(* Properties of strip_mdx_components.                                     *)

MdxDone == pc = "mdx_done"

\* the tag that starts at position p, where s[p] = "<": a closing tag
\* </name>, a self-closing tag <name .../>, an opening tag <name ...>
TagAt(s, p) ==
  LET n == WordRun(s, p + 1)
      g == Find(s, <<">">>, p + 1)
      m == WordRun(s, p + 2)
  IN  IF p + 1 <= Len(s) /\ s[p + 1] = "/" /\ m >= 1
         /\ p + 2 + m <= Len(s) /\ s[p + 2 + m] = ">"
      THEN [kind |-> "close", name |-> SubSeq(s, p + 2, p + 1 + m), last |-> p + 2 + m]
      ELSE IF n >= 1 /\ g # 0
      THEN [kind |-> IF s[g - 1] = "/" THEN "self" ELSE "open",
            name |-> SubSeq(s, p + 1, p + n), last |-> g]
      ELSE [kind |-> "none", last |-> p]

RECURSIVE Nesting(_, _, _)
\* the deepest nesting of paired tags from position p on, the tags of stack
\* being open; -1 when the tags are not properly nested
Nesting(s, p, stack) ==
  LET q == Find(s, <<"<">>, p)
      tag == TagAt(s, q)
      rest == Nesting(s, tag.last + 1,
                      CASE tag.kind = "open" -> <<tag.name>> \o stack
                        [] tag.kind = "close" -> Tail(stack)
                        [] OTHER -> stack)
  IN  IF q = 0 THEN (IF stack = <<>> THEN 0 ELSE -1)
      ELSE IF tag.kind = "close" /\ (stack = <<>> \/ Head(stack) # tag.name) THEN -1
      ELSE IF rest = -1 THEN -1
      ELSE IF tag.kind = "open" /\ rest < Len(stack) + 1 THEN Len(stack) + 1
      ELSE rest

NestingDepth(s) == Nesting(s, 1, <<>>)

\* s holds a component-style opening tag <Name ...>
HasOpeningTag(s) ==
  \E p \in 1..Len(s) :
    s[p] = "<" /\ WordRun(s, p + 1) >= 1 /\ Find(s, <<">">>, p + 1) # 0

\* C6: when the component tags of the input are properly nested, at most
\* max_iterations deep, the output holds no component-style opening tag.
C6_NoOpeningTagLeft ==
  MdxDone /\ NestingDepth(content) \in 0..max_iterations => ~HasOpeningTag(result)

\* the image reference ![alt](url) that starts at position p: the position
\* of its ")" , 0 when there is none
ImageEnd(s, p) ==
  LET j == Find(s, <<"]">>, p + 2)
      k == IF j # 0 /\ j + 1 <= Len(s) /\ s[j + 1] = "(" THEN Find(s, <<")">>, j + 2) ELSE 0
  IN  IF StartsWithAt(s, <<"!", "[">>, p) THEN k ELSE 0

\* the positions where an image reference starts
ImageStarts(s) == {p \in 1..Len(s) : ImageEnd(s, p) # 0}

\* the text from position p to e lies between an opening tag and its
\* closing tag
InsideTags(s, p, e) ==
  \E q \in 1..(p - 1) :
    /\ s[q] = "<"
    /\ TagAt(s, q).kind = "open"
    /\ TagAt(s, q).last < p
    /\ Find(s, ClosingTag(TagAt(s, q).name), e + 1) # 0

\* C7: every image reference inside component tags of the input occurs
\* verbatim in the output, and the output holds as many image references as
\* the input.
C7_ImagesPreserved ==
  MdxDone =>
    /\ \A p \in ImageStarts(content) :
         InsideTags(content, p, ImageEnd(content, p))
           => Contains(result, SubSeq(content, p, ImageEnd(content, p)))
    /\ Cardinality(ImageStarts(result)) = Cardinality(ImageStarts(content))

-----------------------------------------------------------------------------
(* convert_relative_links_to_absolute applied to a text with a reference.  *)

UrlPieces ==
  {<<".", ".", "/">>,
   <<".", "/">>,
   <<"/">>,
   <<"i", "m", "g", "/">>,
   <<"d", "o", "c", "s", "/">>,
   <<"s", "t", "a", "t", "i", "c", "/">>,
   <<".", "p", "n", "g">>,
   <<"h", "t", "t", "p", "s", ":", "/", "/">>,
   <<"#">>}

\* the text before the reference: text and an anchor link, or an unclosed
\* bracket
TextsBefore == {<<"t", " ", "[", "k", "]", "(", "#", "s", ")", " ">>, <<"[", "k">>}

\* the text after the reference: plain text, or an absolute image
TextsAfter == {<<" ", "t">>, <<"!", "[", "k", "]", "(", "h", "t", "t", "p", ":", "/", "/", "e", ")">>}

\* the texts  before !?[a](url) after
LinkTexts ==
  {before \o bang \o <<"[", "a", "]", "(">> \o url \o <<")">> \o after :
     before \in TextsBefore, after \in TextsAfter, bang \in {<<>>, <<"!">>},
     url \in Texts(UrlPieces, MaxUrlPieces)}

InitLinks ==
  /\ pc = "links_call"
  /\ content \in LinkTexts
  /\ metadata = Unused
  /\ max_chunk_size = 0
  /\ result = Unused
  /\ scan = Unused /\ ingest = Unused /\ agent = Unused /\ request = Unused

CallConvert ==
  /\ pc = "links_call"
  /\ result' = convert_relative_links_to_absolute(content)
  /\ pc' = "links_done"
  /\ UNCHANGED <<content, metadata, max_chunk_size, scan, ingest, agent, request>>

NextLinks == CallConvert

SpecLinks == InitLinks /\ [][NextLinks]_vars

-----------------------------------------------------------------------------
(* Properties of convert_relative_links_to_absolute.                       *)

LinksDone == pc = "links_done"

RECURSIVE References(_, _)
\* the references [text](url) and ![text](url) of s from position p on, in
\* order
References(s, p) ==
  LET Q == {q \in p..Len(s) : LinkMatchAt(s, q).ok}
      m == LinkMatchAt(s, Min(Q))
  IN  IF Q = {} THEN <<>> ELSE <<m>> \o References(s, m.last + 1)

RECURSIVE WithoutUrls(_, _)
\* s from position p on, with the URL of every reference taken out
WithoutUrls(s, p) ==
  LET Q == {q \in p..Len(s) : LinkMatchAt(s, q).ok}
      m == LinkMatchAt(s, Min(Q))
  IN  IF Q = {} THEN Tail_(s, p)
      ELSE SubSeq(s, p, m.last - Len(m.link_url) - 1) \o <<")">>
           \o WithoutUrls(s, m.last + 1)

\* the URL is neither absolute nor an anchor
IsRelative(url) ==
  /\ ~StartsWith(url, <<"h", "t", "t", "p", ":", "/", "/">>)
  /\ ~StartsWith(url, <<"h", "t", "t", "p", "s", ":", "/", "/">>)
  /\ ~StartsWith(url, <<"#">>)

\* the reference is classified as an image: written with "!", or its URL
\* holds /img/, or its URL ends in an image extension
ClassifiedImage(m) ==
  \/ m.bang
  \/ Contains(m.link_url, <<"/", "i", "m", "g", "/">>)
  \/ \E e \in {<<".", "p", "n", "g">>,
                <<".", "j", "p", "g">>,
                <<".", "j", "p", "e", "g">>,
                <<".", "g", "i", "f">>,
                <<".", "s", "v", "g">>} :
       EndsWith(m.link_url, e)

\* C8: the rewritten URL of every relative reference classified as an image
\* is under https://nebari.dev/ and never under the docs path: it does not
\* start with https://nebari.dev/docs/ and does not hold /docs/img/.
C8_ImageNeverUnderDocs ==
  LinksDone =>
    LET before == References(content, 1)
        after == References(result, 1)
    IN  \A k \in DOMAIN before :
          IsRelative(before[k].link_url) /\ ClassifiedImage(before[k]) =>
            /\ StartsWith(after[k].link_url, <<"h", "t", "t", "p", "s", ":", "/", "/", "n", "e", "b", "a", "r", "i", ".", "d", "e", "v", "/">>)
            /\ ~StartsWith(after[k].link_url, <<"h", "t", "t", "p", "s", ":", "/", "/", "n", "e", "b", "a", "r", "i", ".", "d", "e", "v", "/", "d", "o", "c", "s", "/">>)
            /\ ~Contains(after[k].link_url, <<"/", "d", "o", "c", "s", "/", "i", "m", "g", "/">>)

\* C9: only the URL part of relative references changes: the references of
\* the output are those of the input with the same marker and label, an
\* absolute or anchor URL is unchanged, and so is all text outside the URLs.
C9_OnlyUrlsChange ==
  LinksDone =>
    LET before == References(content, 1)
        after == References(result, 1)
    IN  /\ Len(after) = Len(before)
        /\ \A k \in DOMAIN before :
             /\ after[k].bang = before[k].bang
             /\ after[k].link_text = before[k].link_text
             /\ (~IsRelative(before[k].link_url) => after[k].link_url = before[k].link_url)
        /\ WithoutUrls(result, 1) = WithoutUrls(content, 1)

\* an image reference was rewritten between other text, next to an anchor
\* and an absolute reference that were not
C9_Witness ==
  /\ LinksDone
  /\ LET before == References(content, 1)
         after == References(result, 1)
     IN  /\ Len(before) = 3
         /\ ~IsRelative(before[1].link_url) /\ after[1].link_url = before[1].link_url
         /\ before[2].bang /\ after[2].link_url # before[2].link_url
         /\ ~IsRelative(before[3].link_url) /\ after[3].link_url = before[3].link_url

-----------------------------------------------------------------------------
(* extract_frontmatter applied to a raw document.                          *)

HeaderPieces ==
  {<<"-", "-", "-", "\n">>,
   <<"t", ":", " ", "a", "\n">>,
   <<"x", "\n">>,
   <<"-", " ", "y", "\n">>,
   <<"[", "\n">>,
   <<"0", "\n">>,
   <<" ">>,
   <<"b">>}

InitFrontmatter ==
  /\ pc = "frontmatter_call"
  /\ content \in Texts(HeaderPieces, MaxHeaderPieces)
  /\ metadata = Unused
  /\ max_chunk_size = 0
  /\ result = Unused
  /\ scan = Unused /\ ingest = Unused /\ agent = Unused /\ request = Unused

CallExtract ==
  /\ pc = "frontmatter_call"
  /\ result' = extract_frontmatter(content)
  /\ pc' = "frontmatter_done"
  /\ UNCHANGED <<content, metadata, max_chunk_size, scan, ingest, agent, request>>

NextFrontmatter == CallExtract

SpecFrontmatter == InitFrontmatter /\ [][NextFrontmatter]_vars

-----------------------------------------------------------------------------
(* Properties of extract_frontmatter.                                      *)

FrontmatterDone == pc = "frontmatter_done"

\* the text between the first two delimiters
HeaderBlock(s) == SplitMax(s, <<"-", "-", "-">>, 2)[2]

\* the header block is absent or malformed: no leading delimiter, fewer than
\* 3 parts, a parse error, or a header that is not a key-value mapping
AbsentOrMalformed(s) ==
  \/ ~StartsWith(s, <<"-", "-", "-">>)
  \/ Len(SplitMax(s, <<"-", "-", "-">>, 2)) < 3
  \/ YamlLoad(HeaderBlock(s)).type \in {"YAMLError", "str", "list", "int"}

\* C10: for a text whose header block is absent or malformed the result is
\* the empty mapping and the original text, unchanged.
C10_MalformedUnchanged ==
  FrontmatterDone /\ AbsentOrMalformed(content) =>
    result = [frontmatter |-> [type |-> "dict", value |-> <<>>], content |-> content]

\* the position of the second delimiter of a text that starts with one,
\* 0 if there is none
SecondDelimiter(s) == Find(s, <<"-", "-", "-">>, 4)

\* the text between the first two delimiters, read off the positions
HeaderText(s) == SubSeq(s, 4, SecondDelimiter(s) - 1)

\* the text after the second delimiter
AfterHeader(s) == Tail_(s, SecondDelimiter(s) + 3)

\* the text starts with a delimiter, has a second one, and the text between
\* them is a key-value mapping (possibly an empty one)
WellFormedHeader(s) ==
  /\ StartsWith(s, <<"-", "-", "-">>)
  /\ SecondDelimiter(s) # 0
  /\ YamlLoad(HeaderText(s)).type \in {"dict", "None"}

\* the key-values of a well-formed header
ParsedKeyValues(s) ==
  IF YamlLoad(HeaderText(s)).type = "dict" THEN YamlLoad(HeaderText(s))
  ELSE [type |-> "dict", value |-> <<>>]

\* the number of delimiters in a text
DelimiterCount(s) == Cardinality({p \in 1..Len(s) : StartsWithAt(s, <<"-", "-", "-">>, p)})

\* C11: for a text that starts with '---' and has a well-formed header block
\* the frontmatter is the parsed key-values of the text between the first
\* two delimiters and the body is the text after the second delimiter,
\* trimmed: nothing of the header block or its delimiters is in front of it,
\* and the later '---' of the body are kept.
C11_WellFormedExtracted ==
  FrontmatterDone /\ WellFormedHeader(content) =>
    /\ result.frontmatter = ParsedKeyValues(content)
    /\ result.content = Strip(AfterHeader(content))
    /\ DelimiterCount(result.content) = DelimiterCount(Strip(AfterHeader(content)))
    /\ Len(result.content) <= Len(content) - Len(HeaderText(content)) - 6

\* a header with a key, and a body that holds a later delimiter
C11_Witness ==
  /\ FrontmatterDone
  /\ WellFormedHeader(content)
  /\ result.frontmatter.value # <<>>
  /\ DelimiterCount(result.content) > 0
  /\ result.content # AfterHeader(content)

-----------------------------------------------------------------------------
(* Query expansion of the agent (spec section 4.5).  A question is a       *)
(* sequence of words.                                                      *)

\* the longest question, in words
MaxWords == 3

\* the words questions are made of
Vocabulary == {"Show", "Architecture", "architecture", "deploy", "AWS", "gcp", "docs"}

\* str.lower of a word
Lower(w) ==
  CASE w = "Show" -> "show"
    [] w = "Architecture" -> "architecture"
    [] w = "AWS" -> "aws"
    [] OTHER -> w

\* the lower-cased question
LowerQuestion(q) == [k \in DOMAIN q |-> Lower(q[k])]

\* the fixed table of keyword families, in matching order: the keywords
\* that select a family and the terms its variant adds
KeywordFamilies ==
  <<[keywords |-> {"architecture"}, terms |-> <<"architecture", "diagram", "infrastructure">>],
    [keywords |-> {"deploy"}, terms |-> <<"deployment", "install", "setup">>],
    [keywords |-> {"aws", "gcp", "azure"}, terms |-> <<"cloud", "provider">>]>>

\* the cap on the number of queries: the original and two expansions
max_queries == 3

\* the family's keywords occur in the lower-cased question
FamilyMatches(q, f) ==
  \E k \in DOMAIN q : LowerQuestion(q)[k] \in KeywordFamilies[f].keywords

\* the variant a family contributes
Variant(q, f) == q \o KeywordFamilies[f].terms

RECURSIVE Variants(_, _)
\* the variants of the matching families from family f on, in table order
Variants(q, f) ==
  IF f > Len(KeywordFamilies) THEN <<>>
  ELSE (IF FamilyMatches(q, f) THEN <<Variant(q, f)>> ELSE <<>>) \o Variants(q, f + 1)

\* every query is kept: no cap
KeepAll(queries) == queries

\* the first max_queries queries
Truncate(queries) == SubSeq(queries, 1, Min({Len(queries), max_queries}))

\* expand_query: the original question, then one variant per matching
\* family, capped
expand_query(q) == Truncate(<<q>> \o Variants(q, 1))

Questions == UNION {[1..n -> Vocabulary] : n \in 0..MaxWords}

InitExpand ==
  /\ pc = "expand_call"
  /\ request \in {[question |-> q] : q \in Questions}
  /\ content = Unused /\ metadata = Unused /\ max_chunk_size = 0
  /\ result = Unused
  /\ scan = Unused /\ ingest = Unused /\ agent = Unused

CallExpand ==
  /\ pc = "expand_call"
  /\ result' = expand_query(request.question)
  /\ pc' = "expand_done"
  /\ UNCHANGED <<content, metadata, max_chunk_size, scan, ingest, agent, request>>

NextExpand == CallExpand

SpecExpand == InitExpand /\ [][NextExpand]_vars

-----------------------------------------------------------------------------
(* Properties of expand_query.                                             *)

ExpandDone == pc = "expand_done"

\* the families whose keywords the question holds
MatchedFamilies(q) == {f \in DOMAIN KeywordFamilies : FamilyMatches(q, f)}

\* C12: expand_query returns at least 1 and at most 3 queries, the first of
\* them the original question; when more than two families match, the two
\* expansions kept are those of the two earliest-matched families.
C12_AtMostThreeQueries ==
  ExpandDone =>
    /\ Len(result) >= 1 /\ Len(result) <= 3
    /\ result[1] = request.question
    /\ Cardinality(MatchedFamilies(request.question)) > 2 =>
         LET first == Min(MatchedFamilies(request.question))
             second == Min(MatchedFamilies(request.question) \ {first})
         IN  /\ result[2] = Variant(request.question, first)
             /\ result[3] = Variant(request.question, second)

\* a question that matches all three families
C12_Witness ==
  /\ ExpandDone
  /\ Cardinality(MatchedFamilies(request.question)) > 2
  /\ Len(result) = 3

-----------------------------------------------------------------------------
(* The answering agent (spec section 4.6): construction, one request at a  *)
(* time through Idle, Expanding, Retrieving, Assembling, Streaming, Done   *)
(* or Failed, and the metadata of the last streamed answer.                *)

\* the most text fragments one model stream delivers
MaxFragments == 2

\* the most requests made of one agent
MaxRequests == 2

\* the number of passages kept for the grounding context
ContextBudget == 2

\* no value (None)
None == "None"

\* the API credential used: the constructor's argument, else the environment's
Credential(anthropic_api_key, environment_key) ==
  IF anthropic_api_key # None THEN anthropic_api_key ELSE environment_key

\* a constructor that never looks the collection up
ConstructUnchecked(anthropic_api_key, environment_key, collection_found) ==
  IF Credential(anthropic_api_key, environment_key) = None THEN "credential_missing"
  ELSE "usable"

\* the outcome of constructing the agent: a fatal error for a missing
\* credential or a failed collection lookup, else a usable agent
ConstructOutcome(anthropic_api_key, environment_key, collection_found) ==
  IF Credential(anthropic_api_key, environment_key) = None THEN "credential_missing"
  ELSE IF ~collection_found THEN "collection_not_found"
  ELSE "usable"

\* the empty mapping {}
EmptyMetadata == <<>>

\* no streaming call yet
NoStream ==
  [status |-> "none", call |-> 0, pending |-> 0, yielded |-> 0,
   usage |-> [input |-> 0, output |-> 0], sources |-> <<>>]

\* a request that has not started: its state, its data, its number, and the
\* latest streaming call
IdleRequest ==
  [state |-> "Idle", question |-> <<>>, queries |-> <<>>, found |-> {},
   sources |-> <<>>, count |-> 0, stream |-> NoStream]

\* the passages of the vector store: identity and relevance (in percent)
Passages ==
  {[source |-> "a.md#x", relevance |-> 90],
   [source |-> "b.md#y", relevance |-> 80],
   [source |-> "c.md#z", relevance |-> 70]}

RECURSIVE Ranked(_)
\* the passages by descending relevance
Ranked(found) ==
  IF found = {} THEN <<>>
  ELSE LET best == CHOOSE x \in found : \A y \in found : x.relevance >= y.relevance
       IN  <<best>> \o Ranked(found \ {best})

\* the identities of the top passages, in rank order
TopSources(found) ==
  LET ranked == Ranked(found)
  IN  [k \in 1..Min({Len(ranked), ContextBudget}) |-> ranked[k].source]

\* the token usage a model stream can report
Usages == {[input |-> 150, output |-> 20], [input |-> 100, output |-> 10]}

\* the price of a call, in millionths of a dollar: a fixed per-token table
Cost(usage) == 3 * usage.input + 15 * usage.output

\* the metadata of a fully consumed stream
StreamMetadata(stream) ==
  [tokens |-> [input |-> stream.usage.input, output |-> stream.usage.output,
               total |-> stream.usage.input + stream.usage.output],
   cost |-> Cost(stream.usage),
   llm_time |-> stream.yielded + 1,
   sources |-> stream.sources]

\* a streaming call that leaves the metadata of the previous call in place
KeepMetadata(a) == a

\* the start of a streaming call resets the metadata to the empty mapping
ResetMetadata(a) == [a EXCEPT !.last_stream_metadata = EmptyMetadata]

\* get_last_stream_metadata
get_last_stream_metadata(a) == a.last_stream_metadata

\* the questions asked of the agent
AgentQuestions == {<<"Show", "architecture">>, <<"deploy", "AWS", "docs">>}

InitAgent ==
  /\ pc = "agent_new"
  /\ agent = [status |-> "unconstructed", api_key |-> None, collection_found |-> FALSE,
              last_stream_metadata |-> EmptyMetadata, conversation_history |-> <<>>]
  /\ request = IdleRequest
  /\ content = Unused /\ metadata = Unused /\ max_chunk_size = 0
  /\ result = Unused
  /\ scan = Unused /\ ingest = Unused

\* NebariAgent(anthropic_api_key): raises, or leaves a usable agent
Construct ==
  /\ pc = "agent_new"
  /\ \E anthropic_api_key \in {None, "test-key"}, environment_key \in {None, "env-key"},
        collection_found \in BOOLEAN :
        LET outcome == ConstructOutcome(anthropic_api_key, environment_key, collection_found)
        IN  /\ agent' = [agent EXCEPT !.status = outcome,
                                      !.api_key = Credential(anthropic_api_key, environment_key),
                                      !.collection_found = collection_found]
            /\ pc' = IF outcome = "usable" THEN "agent_ready" ELSE "agent_raised"
  /\ UNCHANGED <<content, metadata, max_chunk_size, result, scan, ingest, request>>

\* a question arrives: Idle (or a finished request) to Expanding
Ask ==
  /\ pc = "agent_ready" /\ agent.status = "usable"
  /\ request.state \in {"Idle", "Done", "Failed"}
  /\ request.count < MaxRequests
  /\ \E q \in AgentQuestions :
        request' = [request EXCEPT !.state = "Expanding", !.question = q, !.queries = <<>>,
                                     !.found = {}, !.sources = <<>>, !.count = @ + 1]
  /\ UNCHANGED <<pc, content, metadata, max_chunk_size, result, scan, ingest, agent>>

\* Expanding: the query expander
Expand ==
  /\ request.state = "Expanding"
  /\ request' = [request EXCEPT !.state = "Retrieving", !.queries = expand_query(request.question)]
  /\ UNCHANGED <<pc, content, metadata, max_chunk_size, result, scan, ingest, agent>>

\* Retrieving: the lookups of all queries, merged by passage identity
Retrieve ==
  /\ request.state = "Retrieving"
  /\ \E found \in SUBSET Passages :
        request' = [request EXCEPT !.state = "Assembling", !.found = found]
  /\ UNCHANGED <<pc, content, metadata, max_chunk_size, result, scan, ingest, agent>>

\* Retrieving: a store lookup fails
RetrieveFails ==
  /\ request.state = "Retrieving"
  /\ request' = [request EXCEPT !.state = "Failed"]
  /\ UNCHANGED <<pc, content, metadata, max_chunk_size, result, scan, ingest, agent>>

\* Assembling: rank, truncate to the context budget
Assemble ==
  /\ request.state = "Assembling"
  /\ request' = [request EXCEPT !.state = "Streaming", !.sources = TopSources(request.found)]
  /\ UNCHANGED <<pc, content, metadata, max_chunk_size, result, scan, ingest, agent>>

\* generate_answer_stream is called: the metadata is reset and the model
\* stream is opened
StartStream ==
  /\ request.state = "Streaming" /\ request.stream.call < request.count
  /\ \E n \in 0..MaxFragments, usage \in Usages :
        request' = [request EXCEPT !.stream =
                      [status |-> "open", call |-> request.count, pending |-> n,
                       yielded |-> 0, usage |-> usage, sources |-> request.sources]]
  /\ agent' = ResetMetadata(agent)
  /\ UNCHANGED <<pc, content, metadata, max_chunk_size, result, scan, ingest>>

\* the next text fragment arrives and is yielded to the caller
Yield ==
  /\ request.state = "Streaming" /\ request.stream.status = "open"
  /\ request.stream.pending > 0
  /\ request' = [request EXCEPT !.stream.pending = @ - 1, !.stream.yielded = @ + 1]
  /\ UNCHANGED <<pc, content, metadata, max_chunk_size, result, scan, ingest, agent>>

\* the caller consumes the stream to its end: the metadata is populated
Exhaust ==
  /\ request.state = "Streaming" /\ request.stream.status = "open"
  /\ request.stream.pending = 0
  /\ request' = [request EXCEPT !.state = "Done", !.stream.status = "exhausted"]
  /\ agent' = [agent EXCEPT !.last_stream_metadata = StreamMetadata(request.stream),
                            !.conversation_history = Append(@, request.question)]
  /\ UNCHANGED <<pc, content, metadata, max_chunk_size, result, scan, ingest>>

\* the model call fails in transport: the stream is released
StreamFails ==
  /\ request.state = "Streaming" /\ request.stream.status = "open"
  /\ request' = [request EXCEPT !.state = "Failed", !.stream.status = "failed"]
  /\ UNCHANGED <<pc, content, metadata, max_chunk_size, result, scan, ingest, agent>>

\* the caller stops consuming early: the stream is released
Abandon ==
  /\ request.state = "Streaming" /\ request.stream.status = "open"
  /\ request.stream.pending > 0
  /\ request' = [request EXCEPT !.state = "Done", !.stream.status = "abandoned"]
  /\ UNCHANGED <<pc, content, metadata, max_chunk_size, result, scan, ingest, agent>>

\* the caller reads the metadata of the last stream
ReadMetadata ==
  /\ pc = "agent_ready"
  /\ result' = get_last_stream_metadata(agent)
  /\ UNCHANGED <<pc, content, metadata, max_chunk_size, scan, ingest, agent, request>>

NextAgent ==
  \/ Construct \/ Ask \/ Expand \/ Retrieve \/ RetrieveFails \/ Assemble
  \/ StartStream \/ Yield \/ Exhaust \/ StreamFails \/ Abandon \/ ReadMetadata

SpecAgent == InitAgent /\ [][NextAgent]_vars

-----------------------------------------------------------------------------
(* Properties of the agent.                                                *)

\* the agent was constructed and can be used
AgentReady == pc = "agent_ready"

\* the latest streaming call was consumed to its end
StreamExhausted == request.stream.status = "exhausted"

\* C13: the accessor returns the empty mapping in every state in which the
\* current stream has not been fully consumed (after construction, and from
\* the start of a streaming call until its stream is exhausted), never
\* partial data or the data of an earlier call; once the stream is exhausted
\* it returns the tokens of that call with total = input + output, the cost,
\* the time and the sources, and keeps returning them until the next call.
C13_MetadataOnlyAfterExhaustion ==
  AgentReady =>
    /\ ~StreamExhausted => get_last_stream_metadata(agent) = <<>>
    /\ StreamExhausted =>
         LET meta == get_last_stream_metadata(agent)
         IN  /\ DOMAIN meta = {"tokens", "cost", "llm_time", "sources"}
             /\ meta.tokens.input = request.stream.usage.input
             /\ meta.tokens.output = request.stream.usage.output
             /\ meta.tokens.total = meta.tokens.input + meta.tokens.output
             /\ meta.sources = request.stream.sources

\* the second streaming call is under way, fragments were yielded, and the
\* first call had been consumed to its end
C13_Witness ==
  /\ AgentReady
  /\ Len(agent.conversation_history) = 1
  /\ request.stream.call = 2
  /\ request.stream.status = "open"
  /\ request.stream.yielded > 0
  /\ get_last_stream_metadata(agent) = <<>>

\* C14: constructing the agent without an API credential raises the
\* credential-missing error, and with a failing collection lookup the
\* collection-not-found error; then there is no usable agent and the
\* request never leaves Idle: nothing is expanded, retrieved or streamed.
C14_FatalInitialization ==
  pc # "agent_new" =>
    /\ agent.api_key = "None" => agent.status = "credential_missing"
    /\ agent.api_key # "None" /\ ~agent.collection_found => agent.status = "collection_not_found"
    /\ agent.api_key = "None" \/ ~agent.collection_found =>
         /\ pc = "agent_raised"
         /\ request.state = "Idle" /\ request.queries = <<>> /\ request.found = {}
         /\ request.stream.status = "none"

\* the constructor raised the collection-not-found error
C14_Witness ==
  /\ pc = "agent_raised"
  /\ agent.api_key = "env-key" /\ ~agent.collection_found
  /\ agent.status = "collection_not_found"
  /\ request.state = "Idle"

-----------------------------------------------------------------------------
(* scan_docs_directory (ingest_docs.py 23-81): one step per file.          *)

\* the most files found in the documentation directory
MaxFiles == 3

\* the key strings of lines 70-72
TitleKey == <<"t", "i", "t", "l", "e">>

DescriptionKey == <<"d", "e", "s", "c", "r", "i", "p", "t", "i", "o", "n">>

IdKey == <<"i", "d">>

\* what reading a file gives: its text, or the error open/read raises
FileTexts ==
  {<<"-", "-", "-", "\n", "t", "i", "t", "l", "e", ":", " ", "a", "\n", "-", "-", "-", "\n", "x">>,
   <<"<", "a", ">", "x", "<", "/", "a", ">">>,
   <<"-", "-", "-", "\n", "b", "\n", "-", "-", "-", "\n", "x">>,
   <<"-", "-", "-", "\n", "[", "\n", "-", "-", "-", "\n", "x">>}

\* the files the two globs can find: a .md file at the top level or a .mdx
\* file in a category directory, readable or not
FileKinds ==
  {[suffix |-> s, read |-> "ok", text |-> x] : s \in {".md", ".mdx"}, x \in FileTexts}
  \cup {[suffix |-> s, read |-> e, text |-> <<>>] :
          s \in {".md", ".mdx"}, e \in {"OSError", "UnicodeDecodeError"}}

\* the stem of the n-th file found
Stem(n) == <<"f", ToString(n)>>

\* the path of the n-th file, relative to the documentation directory
RelativeParts(file, n) ==
  IF file.suffix = ".mdx" THEN <<"guide", Stem(n) \o <<file.suffix>>>>
  ELSE <<Stem(n) \o <<file.suffix>>>>

\* line 64
Category(parts) == IF Len(parts) > 1 THEN parts[1] ELSE "root"

\* frontmatter.get(key, default) of a dict
Get(frontmatter, key, default) ==
  IF key \in DOMAIN frontmatter.value THEN frontmatter.value[key] ELSE default

\* the except clause of line 78
Catches(exception) == exception \in {"OSError", "UnicodeDecodeError"}

\* lines 66-76: the metadata and the document (.get of a frontmatter that
\* is not a dict is an AttributeError)
BuildDocument(file, n, frontmatter, body) ==
  IF frontmatter.type # "dict" THEN [raised |-> "AttributeError"]
  ELSE [raised |-> "no",
        doc |-> [content |-> body,
                 metadata |-> [file_path |-> RelativeParts(file, n),
                               category |-> Category(RelativeParts(file, n)),
                               title |-> Get(frontmatter, TitleKey, Stem(n)),
                               description |-> Get(frontmatter, DescriptionKey, <<>>),
                               id |-> Get(frontmatter, IdKey, Stem(n)),
                               source_file |-> n]]]

\* lines 59-60: MDX files are stripped
StripIfMdx(file, text) ==
  IF file.suffix = ".mdx" THEN strip_mdx_components(text) ELSE text

\* lines 56-76, after extract_frontmatter
AfterExtract(file, n, extracted) ==
  BuildDocument(file, n, extracted.frontmatter, StripIfMdx(file, extracted.content))

\* the try block of lines 51-76 for the n-th file: the document appended,
\* or the exception raised
ProcessFile(file, n) ==
  IF file.read # "ok" THEN [raised |-> file.read]
  ELSE AfterExtract(file, n, extract_frontmatter(file.text))

\* the lists of files the two globs give: the .md files, then the .mdx files
FileLists ==
  {files \in UNION {[1..n -> FileKinds] : n \in 0..MaxFiles} :
     \A i, j \in DOMAIN files :
       i < j => ~(files[i].suffix = ".mdx" /\ files[j].suffix = ".md")}

InitScan ==
  /\ pc = "scan_call"
  /\ scan \in {[exists |-> TRUE, all_files |-> files, next |-> 1, docs |-> <<>>,
                 raised |-> "no"] : files \in FileLists}
             \cup {[exists |-> FALSE, all_files |-> <<>>, next |-> 1, docs |-> <<>>,
                     raised |-> "no"]}
  /\ content = Unused /\ metadata = Unused /\ max_chunk_size = 0
  /\ result = Unused
  /\ ingest = Unused /\ agent = Unused /\ request = Unused

\* lines 39-41: no documentation directory
ScanMissing ==
  /\ pc = "scan_call" /\ ~scan.exists
  /\ result' = scan.docs
  /\ pc' = "scan_done"
  /\ UNCHANGED <<content, metadata, max_chunk_size, scan, ingest, agent, request>>

\* lines 50-79: one iteration of the loop
ScanFile ==
  /\ pc = "scan_call" /\ scan.exists /\ scan.next <= Len(scan.all_files)
  /\ \E done \in {ProcessFile(scan.all_files[scan.next], scan.next)} :
         IF done.raised = "no"
         THEN /\ scan' = [scan EXCEPT !.next = @ + 1, !.docs = Append(@, done.doc)]
              /\ pc' = pc
         ELSE IF Catches(done.raised)
         THEN /\ scan' = [scan EXCEPT !.next = @ + 1]
              /\ pc' = pc
         ELSE /\ scan' = [scan EXCEPT !.raised = done.raised]
              /\ pc' = "scan_raised"
  /\ UNCHANGED <<content, metadata, max_chunk_size, result, ingest, agent, request>>

\* line 81
ScanReturn ==
  /\ pc = "scan_call" /\ scan.exists /\ scan.next > Len(scan.all_files)
  /\ result' = scan.docs
  /\ pc' = "scan_done"
  /\ UNCHANGED <<content, metadata, max_chunk_size, scan, ingest, agent, request>>

NextScan == ScanMissing \/ ScanFile \/ ScanReturn

SpecScan == InitScan /\ [][NextScan]_vars

-----------------------------------------------------------------------------
(* Properties of scan_docs_directory.                                      *)

\* processing the n-th file fails
FileFails(n) == ProcessFile(scan.all_files[n], n).raised # "no"

RECURSIVE SourcesOfGood(_)
\* the numbers of the first n files that do not fail, in scan order
SourcesOfGood(n) ==
  IF n = 0 THEN <<>>
  ELSE SourcesOfGood(n - 1) \o (IF FileFails(n) THEN <<>> ELSE <<n>>)

\* C15: a failure while processing one file is never fatal: the scan does
\* not raise, and it returns the documents of all the files that did not
\* fail, in scan order.
C15_FileFailureNotFatal ==
  /\ pc # "scan_raised"
  /\ pc = "scan_done" =>
       /\ Len(result) = Len(SourcesOfGood(Len(scan.all_files)))
       /\ \A k \in DOMAIN result :
            result[k].metadata.source_file = SourcesOfGood(Len(scan.all_files))[k]

-----------------------------------------------------------------------------
(* ingest_to_chroma (ingest_docs.py 109-164): one step per batch.          *)

\* the most chunks of one ingestion run
MaxChunks == 205

\* line 153
batch_size == 100

\* the k-th chunk of a run (k from 1): texts repeat, metadata do not
ChunkOf(k) == [text |-> k % 7, metadata |-> k]

\* f"chunk_{i}"
ChunkId(i) == <<"chunk_", ToString(i)>>

\* a slice that stops one element early
SliceShort(seq, i) == SubSeq(seq, i + 1, Min({i + batch_size - 1, Len(seq)}))

\* seq[i : i + batch_size], i from 0
Slice(seq, i) == SubSeq(seq, i + 1, Min({i + batch_size, Len(seq)}))

InitIngest ==
  /\ pc = "ingest_call"
  /\ \E n \in 0..MaxChunks, existing \in BOOLEAN :
       ingest = [chunks |-> [k \in 1..n |-> ChunkOf(k)],
                 collection |-> IF existing
                                THEN <<[document |-> 0, metadata |-> 0, id |-> ChunkId(0)]>>
                                ELSE None,
                 texts |-> <<>>, metadatas |-> <<>>, ids |-> <<>>, i |-> 0, batches |-> <<>>]
  /\ content = Unused /\ metadata = Unused /\ max_chunk_size = 0
  /\ result = Unused
  /\ scan = Unused /\ agent = Unused /\ request = Unused

\* lines 128-150: delete the collection if there is one, create it anew,
\* prepare the three lists
PrepareCollection ==
  /\ pc = "ingest_call"
  /\ ingest' = [ingest EXCEPT
                  !.collection = <<>>,
                  !.texts = [k \in DOMAIN ingest.chunks |-> ingest.chunks[k].text],
                  !.metadatas = [k \in DOMAIN ingest.chunks |-> ingest.chunks[k].metadata],
                  !.ids = [k \in DOMAIN ingest.chunks |-> ChunkId(k - 1)]]
  /\ pc' = "ingest_batches"
  /\ UNCHANGED <<content, metadata, max_chunk_size, result, scan, agent, request>>

\* lines 154-161: one batch is added
AddBatch ==
  /\ pc = "ingest_batches" /\ ingest.i < Len(ingest.texts)
  /\ LET batch_texts == Slice(ingest.texts, ingest.i)
         batch_metadatas == Slice(ingest.metadatas, ingest.i)
         batch_ids == Slice(ingest.ids, ingest.i)
     IN  ingest' = [ingest EXCEPT
                     !.collection = @ \o [k \in DOMAIN batch_ids |->
                                            [document |-> batch_texts[k],
                                             metadata |-> batch_metadatas[k],
                                             id |-> batch_ids[k]]],
                     !.batches = Append(@, Len(batch_ids)),
                     !.i = @ + batch_size]
  /\ UNCHANGED <<pc, content, metadata, max_chunk_size, result, scan, agent, request>>

\* lines 163-164: the loop is over
IngestReturn ==
  /\ pc = "ingest_batches" /\ ingest.i >= Len(ingest.texts)
  /\ pc' = "ingest_done"
  /\ UNCHANGED <<content, metadata, max_chunk_size, result, scan, ingest, agent, request>>

NextIngest == PrepareCollection \/ AddBatch \/ IngestReturn

SpecIngest == InitIngest /\ [][NextIngest]_vars

-----------------------------------------------------------------------------
(* Properties of ingest_to_chroma.                                         *)

IngestDone == pc = "ingest_done"

\* C16: every chunk of the run is added to the fresh collection exactly
\* once and in order, in batches of at most 100, the k-th chunk's text and
\* metadata paired with the id chunk_<k> (k from 0): ids are unique and no
\* chunk is skipped or added twice at a batch boundary.
C16_EveryChunkOnce ==
  /\ pc = "ingest_batches" \/ pc = "ingest_done" =>
       /\ \A b \in DOMAIN ingest.batches : ingest.batches[b] <= 100
       /\ \A j, k \in DOMAIN ingest.collection :
            ingest.collection[j].id = ingest.collection[k].id => j = k
  /\ IngestDone =>
       /\ Len(ingest.collection) = Len(ingest.chunks)
       /\ \A k \in DOMAIN ingest.chunks :
            /\ ingest.collection[k].document = ingest.chunks[k].text
            /\ ingest.collection[k].metadata = ingest.chunks[k].metadata
            /\ ingest.collection[k].id = <<"chunk_", ToString(k - 1)>>

\* a run of three batches over an existing collection
C16_Witness ==
  /\ IngestDone
  /\ Len(ingest.chunks) > 200
  /\ Len(ingest.batches) = 3
  /\ ingest.batches[1] = 100 /\ ingest.batches[3] < 100

-----------------------------------------------------------------------------
(* Content kept by chunk_by_headers.                                       *)

\* the maximal runs of non-whitespace characters of a text
Words(s) ==
  {SubSeq(s, i, Min({j \in i..Len(s) : j = Len(s) \/ IsSpace(s[j + 1])})) :
     i \in {p \in 1..Len(s) : ~IsSpace(s[p]) /\ (p = 1 \/ IsSpace(s[p - 1]))}}

\* C17: no document content is lost: every non-whitespace part of the
\* link-absolutized content, the text before the first level-2/3 heading
\* included, is contained in at least one returned chunk.
C17_NoContentLost ==
  ChunkDone =>
    \A w \in Words(Absolutized) : \E k \in DOMAIN result : Contains(result[k].text, w)

\* the paragraphs of section i
ParagraphsOf(i) ==
  Split(SectionContent(Absolutized, FindHeaders(Absolutized, 1), i), <<"\n", "\n">>)

\* the seed followed by the paragraphs a..b of section i, trimmed
SeedAndRun(i, a, b) ==
  Strip(TitlePrefix(metadata) \o FindHeaders(Absolutized, 1)[i + 1].title \o <<"\n", "\n">>
        \o Concat([k \in 1..(b - a + 1) |-> ParagraphsOf(i)[a + k - 1] \o <<"\n", "\n">>]))

\* C18: in the re-split of an oversize section each emitted chunk is the
\* title+heading seed followed by a non-empty run of consecutive paragraphs
\* of the section, and the runs, in chunk order, partition the paragraph
\* list: no paragraph is lost, repeated or reordered, and no chunk is the
\* seed alone.
C18_RunsPartitionParagraphs ==
  ChunkDone /\ FindHeaders(Absolutized, 1) # <<>> =>
    \A i \in 0..(Len(FindHeaders(Absolutized, 1)) - 1) :
      Oversize(i) =>
        LET m == Cardinality(ChunksOfSection(i))
            first == Min(ChunksOfSection(i))
            n == Len(ParagraphsOf(i))
        IN  /\ m >= 1 /\ m <= n
            /\ \E cut \in [0..m -> 0..n] :
                 /\ cut[0] = 0 /\ cut[m] = n
                 /\ \A j \in 1..m : cut[j - 1] < cut[j]
                 /\ \A j \in 1..m :
                      result[first + j - 1].text = SeedAndRun(i, cut[j - 1] + 1, cut[j])

-----------------------------------------------------------------------------
(* All the operations together.                                            *)

Init ==
  \/ InitFrontmatter \/ InitMdx \/ InitLinks \/ InitChunk
  \/ InitExpand \/ InitAgent \/ InitScan \/ InitIngest

Next ==
  \/ CallExtract \/ CallStrip \/ CallConvert \/ CallChunk
  \/ NextExpand \/ NextAgent \/ NextScan \/ NextIngest

Spec == Init /\ [][Next]_vars

====
